---- MODULE Spec2Model ----
(***************************************************************************)
(* webex-rust: the event-stream session (WebexEventStream) of src/lib.rs.  *)
(*                                                                         *)
(* The session owns a web socket (ws_stream), an idle timeout and the      *)
(* public flag is_open.  Its one read-side operation, next(), loops over   *)
(* the items the socket yields until one of them makes it return.          *)
(*                                                                         *)
(* The socket is the environment: it produces frames and transport errors  *)
(* (kept in `sent`, consumed in order through the read position `rd`),     *)
(* stays silent while time passes, or ends.  Time is kept by clocks that   *)
(* count seconds since the event they are named after.                     *)
(***************************************************************************)
EXTENDS Integers, Sequences, FiniteSets, TLC

(***************************************************************************)
(* Bounds of the model.                                                    *)
(***************************************************************************)
MaxFrames == 2          \* items the socket produces in one behaviour
MaxCalls == 3           \* calls of next() in one behaviour
TicksPerTimeout == 2    \* clock steps that make up one idle timeout
MaxDevices == 3         \* devices in one reply of the device list
MaxTs == 3              \* modification times run over 1..MaxTs
MaxClients == 2         \* clients constructed concurrently in one process
MaxPolls == 3           \* polls of the token endpoint that are counted

(***************************************************************************)
(* Program constants.                                                      *)
(***************************************************************************)
TimeoutSecs == 20       \* Duration::from_secs(20) in connect_device

TickSecs == (TimeoutSecs + TicksPerTimeout - 1) \div TicksPerTimeout
ClockCap == TimeoutSecs + (2 * TickSecs)   \* history clocks saturate here

(***************************************************************************)
(* What the socket can yield: Some(Ok(TMessage)) or Some(Err(TErr)).       *)
(* A Binary message carries a payload; the others carry nothing the        *)
(* session looks at.                                                       *)
(***************************************************************************)
EventIds == {"ev1", "ev2"}
Payloads == EventIds \cup {"not_utf8", "not_event_json"}
IgnoredTypes == {"Text", "Ping", "Pong", "Frame"}
TErrKinds == {"Protocol", "Io", "Capacity", "Utf8"}

Items ==
    [tag : {"Binary"}, data : Payloads]
    \cup [tag : IgnoredTypes \cup {"Close"}, data : {""}]
    \cup [tag : {"Err"}, data : TErrKinds]

VARIABLES
    is_open,     \* WebexEventStream.is_open
    timeout,     \* WebexEventStream.timeout, in seconds
    pc,          \* "idle": no call of next() in progress; "waiting": inside its loop
    sent,        \* every item the socket has produced so far, in order
    rd,          \* how many items of `sent` next() has taken from the socket
    sock_eof,    \* the socket stream has ended: once drained it yields None
    results,     \* what the calls of next() returned, in order
    clk_wait,    \* seconds since the running timeout(..) was created
    clk_frame,   \* seconds since the last item was taken (or the session began)
    clk_call,    \* seconds since the last call of next() began
    es_pc,       \* where the call of event_stream() stands
    es_listed,   \* the devices get_devices() returned
    es_cands,    \* `devices` of event_stream(): filtered and sorted
    es_idx,      \* how many of es_cands the for loop has taken
    es_cur,      \* the device connect_device() is working on, and whether it is the fallback
    es_log,      \* the REST calls and connection attempts made, with their outcomes, in order
    es_ret,      \* what event_stream() returned
    hs,          \* the running (or last) connect_device(): frames sent and read, and its result
    rest,        \* one call of RestClient::rest_api: its type T, the response, the result
    gid,         \* one use of GlobalId / Event::activity_type: the input and the result
    merc,        \* MERCURY_CACHE, its mutex, and the clients being constructed
    oauth        \* one call of DeviceAuthenticator::wait_for_authentication

session_vars == <<is_open, timeout, pc, sent, rd, sock_eof, results,
                  clk_wait, clk_frame, clk_call>>

es_vars == <<es_pc, es_listed, es_cands, es_idx, es_cur, es_log, es_ret, hs>>

vars == <<is_open, timeout, pc, sent, rd, sock_eof, results,
          clk_wait, clk_frame, clk_call,
          es_pc, es_listed, es_cands, es_idx, es_cur, es_log, es_ret, hs,
          rest, gid, merc, oauth>>

call_vars == <<rest, gid, merc, oauth>>

Min(a, b) == IF a < b THEN a ELSE b

Last(s) == s[Len(s)]

(***************************************************************************)
(* Return values.  NoReturn is the Ok(None) of handle_message: the loop of *)
(* next() goes on.  Every other value ends the call of next().             *)
(***************************************************************************)
NoReturn == [kind |-> "None", data |-> ""]
OkEvent(ev) == [kind |-> "Event", data |-> ev]
Err(kind, data) == [kind |-> kind, data |-> data]

ErrKinds == {"Timeout", "Fatal", "Tungstenite", "Closed", "UTF8", "Json"}

(***************************************************************************)
(* std::str::from_utf8 and serde_json::from_str::<Event> on a payload.     *)
(***************************************************************************)
from_utf8_ok(bytes) == bytes # "not_utf8"

from_str_ok(json) == json \in EventIds

(***************************************************************************)
(* handle_message, arm by arm: the value returned and the is_open left.    *)
(***************************************************************************)
handle_Binary_reopens(bytes, open) ==
    IF ~from_utf8_ok(bytes)
    THEN [ret |-> Err("UTF8", ""), is_open |-> open]
    ELSE IF from_str_ok(bytes)
         THEN [ret |-> OkEvent(bytes), is_open |-> TRUE]
         ELSE [ret |-> Err("Json", ""), is_open |-> open]

handle_Binary_drops_bad(bytes, open) ==
    IF from_utf8_ok(bytes) /\ from_str_ok(bytes)
    THEN [ret |-> OkEvent(bytes), is_open |-> open]
    ELSE [ret |-> NoReturn, is_open |-> open]

handle_Binary_loses_event(bytes, open) ==
    IF ~from_utf8_ok(bytes)
    THEN [ret |-> Err("UTF8", ""), is_open |-> open]
    ELSE IF from_str_ok(bytes)
         THEN IF open
              THEN [ret |-> OkEvent(bytes), is_open |-> open]
              ELSE [ret |-> NoReturn, is_open |-> open]
         ELSE [ret |-> Err("Json", ""), is_open |-> open]

handle_Binary(bytes, open) ==
    IF ~from_utf8_ok(bytes)
    THEN [ret |-> Err("UTF8", ""), is_open |-> open]
    ELSE IF from_str_ok(bytes)
         THEN [ret |-> OkEvent(bytes), is_open |-> open]
         ELSE [ret |-> Err("Json", ""), is_open |-> open]

handle_Close_keeps_open(open) ==
    [ret |-> Err("Closed", "Web Socket Closed"), is_open |-> open]

handle_Close(open) ==
    [ret |-> Err("Closed", "Web Socket Closed"), is_open |-> FALSE]

handle_ignored_frame_is_error(tag, open) ==
    IF tag = "Frame"
    THEN [ret |-> Err("Json", ""), is_open |-> open]
    ELSE [ret |-> NoReturn, is_open |-> open]

handle_ignored(tag, open) == [ret |-> NoReturn, is_open |-> open]

handle_message(msg, open) ==
    CASE msg.tag = "Binary" -> handle_Binary(msg.data, open)
      [] msg.tag = "Text" -> handle_ignored(msg.tag, open)
      [] msg.tag = "Ping" -> handle_ignored(msg.tag, open)
      [] msg.tag = "Close" -> handle_Close(open)
      [] msg.tag = "Pong" -> handle_ignored(msg.tag, open)
      [] msg.tag = "Frame" -> handle_ignored(msg.tag, open)

(***************************************************************************)
(* The Err arms of next(): Protocol and Io close the session and return    *)
(* the error's text; any other error is returned wrapped, session as is.   *)
(***************************************************************************)
is_fatal_protocol_only(e) == e \in {"Protocol"}

is_fatal(e) == e \in {"Protocol", "Io"}

on_transport_error_always_closes(e, open) ==
    IF is_fatal(e)
    THEN [ret |-> Err("Fatal", e), is_open |-> FALSE]
    ELSE [ret |-> Err("Tungstenite", e), is_open |-> FALSE]

on_transport_error(e, open) ==
    IF is_fatal(e)
    THEN [ret |-> Err("Fatal", e), is_open |-> FALSE]
    ELSE [ret |-> Err("Tungstenite", e), is_open |-> open]

(***************************************************************************)
(* The Err(_) arm of the timeout match: the deadline passed.               *)
(***************************************************************************)
on_elapsed_keeps_open(open) == [ret |-> Err("Timeout", "no activity"), is_open |-> open]

on_elapsed(open) == [ret |-> Err("Timeout", "no activity"), is_open |-> FALSE]

(***************************************************************************)
(* Some(item): the outcome of one item taken from the socket.              *)
(***************************************************************************)
on_item(item, open) ==
    IF item.tag = "Err"
    THEN on_transport_error(item.data, open)
    ELSE handle_message(item, open)

(***************************************************************************)
(* Every turn of the loop creates a new timeout(self.timeout, ..): the     *)
(* clock of the wait starts again from zero.                               *)
(***************************************************************************)
rearm_once_per_call(clk) == clk

rearm(clk) == 0

(***************************************************************************)
(* event_stream(): devices, REST replies and what the REST layer makes of  *)
(* them.                                                                   *)
(*                                                                         *)
(* A device is what the session manager reads of a DeviceData: its name,   *)
(* its ws_url ("none": absent, "wss": a web socket URL, "unparseable": a   *)
(* string url::Url::parse rejects) and its modification_time (0: absent).  *)
(* `id` tells the devices of one call apart: the position in the list of   *)
(* the reply, or -k for the k-th device this call created.                 *)
(***************************************************************************)
DeviceName == "rust-client"
OtherName == "other-client"

DeviceDomain ==
    [name : {DeviceName}, ws_url : {"wss"}, mtime : 1..MaxTs]
    \cup {[name |-> DeviceName, ws_url |-> "none", mtime |-> MaxTs],
          [name |-> OtherName, ws_url |-> "wss", mtime |-> MaxTs],
          [name |-> DeviceName, ws_url |-> "unparseable", mtime |-> 1],
          [name |-> DeviceName, ws_url |-> "wss", mtime |-> 0]}

CreatedDomain ==
    {[name |-> DeviceName, ws_url |-> "wss", mtime |-> MaxTs],
     [name |-> DeviceName, ws_url |-> "none", mtime |-> MaxTs],
     [name |-> OtherName, ws_url |-> "wss", mtime |-> MaxTs]}

WithId(d, i) == [id |-> i, name |-> d.name, ws_url |-> d.ws_url, mtime |-> d.mtime]

NoDevice == [id |-> 0, name |-> "", ws_url |-> "none", mtime |-> 0]

(***************************************************************************)
(* Replies of the server.  net = "fail": the request got no response.      *)
(* body = "devices": a JSON object with a `devices` array; "device": a     *)
(* DeviceData object; "object": another JSON object, as the server sends   *)
(* with an error status; "not_json": anything else, the empty body too.    *)
(***************************************************************************)
Statuses == {200, 404, 429}

NetFailure == [net |-> "fail", status |-> 0, body |-> "none", devices |-> <<>>, device |-> NoDevice]

ListResponses ==
    {NetFailure}
    \cup [net : {"ok"}, status : {200}, body : {"devices"},
          devices : (UNION {[1..n -> DeviceDomain] : n \in 0..MaxDevices}), device : {NoDevice}]
    \cup [net : {"ok"}, status : Statuses, body : {"object", "not_json"},
          devices : {<<>>}, device : {NoDevice}]

CreateResponses ==
    {NetFailure}
    \cup [net : {"ok"}, status : {200}, body : {"device"},
          devices : {<<>>}, device : {WithId(d, 0) : d \in CreatedDomain}]
    \cup [net : {"ok"}, status : Statuses, body : {"object", "not_json"},
          devices : {<<>>}, device : {NoDevice}]

(***************************************************************************)
(* Values of Result<T, Error>.                                             *)
(***************************************************************************)
EsOk == [kind |-> "Ok", data |-> "", status |-> 0]
EsErr(kind, data) == [kind |-> kind, data |-> data, status |-> 0]
EsPending == [kind |-> "Pending", data |-> "", status |-> 0]

(***************************************************************************)
(* rest_api::<T>: send() fails, or the body is decoded as T whatever the   *)
(* status of the response.  A DevicesReply has only optional fields, so    *)
(* every JSON object decodes to one; a DeviceData has a required field;    *)
(* the unit type () decodes from the JSON value null only.                 *)
(***************************************************************************)
rest_api(resp, T) ==
    IF resp.net = "fail"
    THEN [ok |-> FALSE, err |-> EsErr("Reqwest", "send"),
          has_devices |-> FALSE, devices |-> <<>>, device |-> NoDevice]
    ELSE IF T = "DevicesReply" /\ resp.body \in {"devices", "object", "device"}
         THEN [ok |-> TRUE, err |-> EsOk,
               has_devices |-> (resp.body = "devices"),
               devices |-> resp.devices, device |-> NoDevice]
         ELSE IF T = "DeviceData" /\ resp.body = "device"
              THEN [ok |-> TRUE, err |-> EsOk,
                    has_devices |-> FALSE, devices |-> <<>>, device |-> resp.device]
              ELSE IF T = "Unit" /\ resp.body = "null"
              THEN [ok |-> TRUE, err |-> EsOk,
                    has_devices |-> FALSE, devices |-> <<>>, device |-> NoDevice]
              ELSE [ok |-> FALSE, err |-> EsErr("Reqwest", "decode"),
                    has_devices |-> FALSE, devices |-> <<>>, device |-> NoDevice]

(***************************************************************************)
(* The match of get_devices() on the reply of the device list: return the  *)
(* devices, chain the device setup, or return an error.                    *)
(***************************************************************************)
get_devices_match(r) ==
    IF r.ok
    THEN IF r.has_devices
         THEN [act |-> "devices", err |-> EsOk]
         ELSE [act |-> "setup", err |-> EsOk]
    ELSE IF r.err.kind \in {"Status", "StatusText"}
         THEN IF r.err.status = 404
              THEN [act |-> "setup", err |-> EsOk]
              ELSE [act |-> "error", err |-> r.err]
         ELSE IF r.err.kind = "Limited"
              THEN [act |-> "error", err |-> r.err]
              ELSE [act |-> "error", err |-> EsErr("Text", "Can't decode devices reply")]

(***************************************************************************)
(* No call of rest_api and no use of GlobalId has been made.               *)
(***************************************************************************)
RestIdle == [pc |-> "idle", T |-> "none", resp |-> NetFailure, retry_after |-> "absent",
             ret |-> EsPending]

GidIdle == [op |-> "none"]

(***************************************************************************)
(* MERCURY_CACHE and the clients under construction.  `cache` maps the id  *)
(* of a client (the hash of its token) to "none" (no entry), "err"         *)
(* (Err(())) or a host (Ok(url)); `lock` is the client holding the mutex,  *)
(* 0 if it is free; `writes` lists the inserts made, in order.             *)
(***************************************************************************)
Clients == 1..MaxClients

TokenIds == {1, 2}

WdmHosts == {"wdm-1", "wdm-2"}

NoDiscovery == [ok |-> FALSE, host |-> "", err |-> "none"]

NoReply == [ok |-> FALSE, items |-> <<>>, host |-> "", err |-> "none"]

ClientIdle ==
    [pc |-> "idle", id |-> 0, orgs |-> NoReply, cat |-> NoReply, catalog_reqs |-> <<>>,
     orgs_reqs |-> 0, disc |-> NoDiscovery, hit |-> FALSE, ret |-> NoDiscovery,
     table |-> {}, devices |-> ""]

MercIdle ==
    [cache |-> [t \in TokenIds |-> "none"], lock |-> 0, writes |-> <<>>,
     c |-> [p \in Clients |-> ClientIdle]]

(***************************************************************************)
(* No call of wait_for_authentication has been made.                       *)
(***************************************************************************)
NoBearer == [ok |-> FALSE, bearer |-> "", err |-> "none"]

OauthIdle == [pc |-> "idle", verification_token |-> [device_code |-> "", interval |-> 0], polls |-> 0,
              sleep |-> 0, sent |-> "", last |-> [status |-> 0, body |-> "none"], ret |-> NoBearer]

(***************************************************************************)
(* The devices event_stream() keeps: those named as this client.           *)
(***************************************************************************)
keep_device_any_name(d) == TRUE

keep_device(d) == d.name = DeviceName

(***************************************************************************)
(* The sort of event_stream(): descending by modification_time, a missing  *)
(* time read as `now`, later than every time the server has given.  The    *)
(* sort is stable; two devices without a time are compared by two readings *)
(* of the clock, so their order is not determined.                         *)
(***************************************************************************)
sort_key(d) == IF d.mtime = 0 THEN (MaxTs + 1) ELSE d.mtime

sorted_before_ascending(a, b) == sort_key(a) < sort_key(b)

sorted_before(a, b) == sort_key(a) > sort_key(b)

Injections(n) == {f \in [1..n -> 1..n] : \A i, j \in 1..n : i # j => f[i] # f[j]}

sort_by(devs) ==
    {[i \in 1..Len(devs) |-> devs[f[i]]] : f \in
        {g \in Injections(Len(devs)) :
            \A i, j \in 1..Len(devs) :
               i < j =>
                  /\ ~sorted_before(devs[g[j]], devs[g[i]])
                  /\ ( /\ ~sorted_before(devs[g[i]], devs[g[j]])
                       /\ devs[g[i]].mtime # 0 ) => g[i] < g[j]}}

candidates(listed) == sort_by(SelectSeq(listed, keep_device))

(***************************************************************************)
(* connect_device(), before it connects: a device without ws_url, or with  *)
(* one that does not parse, is an error.                                   *)
(***************************************************************************)
cd_check_url_only_parses(d) ==
    IF d.ws_url = "unparseable"
    THEN EsErr("Text", "Failed to parse ws_url")
    ELSE EsOk

cd_check_url(d) ==
    IF d.ws_url = "none"
    THEN EsErr("Text", "Device has no ws_url")
    ELSE IF d.ws_url = "unparseable"
         THEN EsErr("Text", "Failed to parse ws_url")
         ELSE EsOk

(***************************************************************************)
(* connect_device(), when connect_async has answered: authenticate, or     *)
(* return the error.                                                       *)
(***************************************************************************)
cd_on_connect_skips_auth(ok) ==
    IF ok THEN [go |-> "return", res |-> EsOk]
    ELSE [go |-> "return", res |-> EsErr("Tungstenite", "Failed to connect to ws_url")]

cd_on_connect(ok) ==
    IF ok THEN [go |-> "auth", res |-> EsOk]
    ELSE [go |-> "return", res |-> EsErr("Tungstenite", "Failed to connect to ws_url")]

(***************************************************************************)
(* auth(): the send of the authorization frame, then the one frame read.   *)
(***************************************************************************)
auth_on_send(ok) ==
    IF ok THEN [go |-> "read", res |-> EsOk]
    ELSE [go |-> "return", res |-> EsErr("Tungstenite", "failed to send authentication")]

auth_on_reply_accepts_any_frame(reply) ==
    IF reply \in {"Ping", "Pong", "Text", "Binary", "Close", "Frame"}
    THEN EsOk
    ELSE IF reply = "Err"
         THEN EsErr("Text", "Received error from websocket")
         ELSE EsErr("Text", "Websocket closed")

auth_on_reply(reply) ==
    IF reply \in {"Ping", "Pong"}
    THEN EsOk
    ELSE IF reply = "Err"
         THEN EsErr("Text", "Received error from websocket")
         ELSE IF reply = "End"
              THEN EsErr("Text", "Websocket closed")
              ELSE EsErr("Text", "Received frame in reply to auth message")

HsNone ==
    [dev |-> 0, sends |-> 0, send_ok |-> FALSE, reads |-> 0, reply |-> "none",
     res |-> EsPending]

(***************************************************************************)
(* What event_stream() does with the result of connect_device(): in the    *)
(* for loop a success is returned and a failure is dropped; the result of  *)
(* the last call, on the device just created, is returned as it is.        *)
(***************************************************************************)
on_cd_result_keeps_trying(res, final) ==
    IF final THEN "return" ELSE "continue"

on_cd_result_aborts(res, final) ==
    "return"

on_cd_result(res, final) ==
    IF final \/ res.kind = "Ok" THEN "return" ELSE "continue"

(***************************************************************************)
(* After the for loop: a new device is set up, whatever the loop tried.    *)
(***************************************************************************)
on_exhausted_only_if_none(cands) ==
    IF Len(cands) = 0 THEN "setup" ELSE "error"

on_exhausted(cands) == "setup"

(***************************************************************************)
(* The state of a call of event_stream() that has returned a session.      *)
(***************************************************************************)
EsReturned ==
    /\ es_pc = "done"
    /\ es_listed = <<>>
    /\ es_cands = <<>>
    /\ es_idx = 0
    /\ es_cur = [dev |-> NoDevice, final |-> FALSE]
    /\ es_log = <<>>
    /\ es_ret = EsOk
    /\ hs = HsNone
    /\ rest = RestIdle
    /\ gid = GidIdle
    /\ merc = MercIdle
    /\ oauth = OauthIdle

(***************************************************************************)
(* A session as connect_device constructs it after the handshake.          *)
(***************************************************************************)
Init ==
    /\ is_open = TRUE
    /\ timeout = TimeoutSecs
    /\ pc = "idle"
    /\ sent = <<>>
    /\ rd = 0
    /\ sock_eof = FALSE
    /\ results = <<>>
    /\ clk_wait = 0
    /\ clk_frame = 0
    /\ clk_call = 0
    /\ EsReturned

(***************************************************************************)
(* The caller calls next(): the loop is entered and the first wait begins. *)
(* next() does not look at is_open.                                        *)
(***************************************************************************)
next_Call ==
    /\ UNCHANGED <<es_vars, call_vars>>
    /\ pc = "idle"
    /\ Len(results) < MaxCalls
    /\ pc' = "waiting"
    /\ clk_wait' = 0
    /\ clk_call' = 0
    /\ UNCHANGED <<is_open, timeout, sent, rd, sock_eof, results, clk_frame>>

(***************************************************************************)
(* The wait ends with Some(item): the item is taken from the socket and    *)
(* either ends the call or sends the loop into its next turn.              *)
(***************************************************************************)
next_Some ==
    /\ UNCHANGED <<es_vars, call_vars>>
    /\ pc = "waiting"
    /\ rd < Len(sent)
    /\ LET item == sent[rd + 1]
           out == on_item(item, is_open)
       IN /\ rd' = rd + 1
          /\ is_open' = out.is_open
          /\ clk_frame' = 0
          /\ IF out.ret = NoReturn
             THEN /\ pc' = "waiting"
                  /\ clk_wait' = rearm(clk_wait)
                  /\ results' = results
             ELSE /\ pc' = "idle"
                  /\ clk_wait' = 0
                  /\ results' = Append(results,
                        [kind |-> out.ret.kind, data |-> out.ret.data, at |-> rd + 1])
    /\ UNCHANGED <<timeout, sent, sock_eof, clk_call>>

(***************************************************************************)
(* The wait ends with None (the stream has ended): `continue`.             *)
(***************************************************************************)
next_None ==
    /\ UNCHANGED <<es_vars, call_vars>>
    /\ pc = "waiting"
    /\ rd = Len(sent)
    /\ sock_eof
    /\ clk_wait' = rearm(clk_wait)
    /\ UNCHANGED <<is_open, timeout, pc, sent, rd, sock_eof, results, clk_frame, clk_call>>

(***************************************************************************)
(* The wait ends with Err(Elapsed): nothing came within self.timeout.      *)
(***************************************************************************)
next_Elapsed ==
    /\ UNCHANGED <<es_vars, call_vars>>
    /\ pc = "waiting"
    /\ rd = Len(sent)
    /\ ~sock_eof
    /\ clk_wait >= timeout
    /\ LET out == on_elapsed(is_open)
       IN /\ is_open' = out.is_open
          /\ results' = Append(results,
                [kind |-> out.ret.kind, data |-> out.ret.data, at |-> rd])
    /\ pc' = "idle"
    /\ clk_wait' = 0
    /\ UNCHANGED <<timeout, sent, rd, sock_eof, clk_frame, clk_call>>

next_Step == next_Some \/ next_None \/ next_Elapsed

(***************************************************************************)
(* The environment: the socket produces an item, or its stream ends.       *)
(***************************************************************************)
SockProduce ==
    /\ UNCHANGED <<es_vars, call_vars>>
    /\ ~sock_eof
    /\ Len(sent) < MaxFrames
    /\ \E item \in Items : sent' = Append(sent, item)
    /\ UNCHANGED <<is_open, timeout, pc, rd, sock_eof, results,
                   clk_wait, clk_frame, clk_call>>

SockEnd ==
    /\ UNCHANGED <<es_vars, call_vars>>
    /\ ~sock_eof
    /\ sock_eof' = TRUE
    /\ UNCHANGED <<is_open, timeout, pc, sent, rd, results,
                   clk_wait, clk_frame, clk_call>>

(***************************************************************************)
(* Time passes.  A wait that can end (an item is there, or the deadline    *)
(* has come) ends before more time passes.                                 *)
(***************************************************************************)
Tick ==
    /\ UNCHANGED <<es_vars, call_vars>>
    /\ pc = "waiting" => (rd = Len(sent) /\ clk_wait < timeout)
    /\ clk_wait' = IF pc = "waiting" THEN clk_wait + TickSecs ELSE clk_wait
    /\ clk_frame' = Min(clk_frame + TickSecs, ClockCap)
    /\ clk_call' = Min(clk_call + TickSecs, ClockCap)
    /\ UNCHANGED <<is_open, timeout, pc, sent, rd, sock_eof, results>>

Next ==
    \/ next_Call
    \/ next_Some
    \/ next_None
    \/ next_Elapsed
    \/ SockProduce
    \/ SockEnd
    \/ Tick

Spec == Init /\ [][Next]_vars

(***************************************************************************)
(* The task that awaits next() is polled whenever it can go on, and time   *)
(* does not stop.  The socket and the caller owe nothing.                  *)
(***************************************************************************)
FairSpec == Spec /\ WF_vars(next_Step) /\ WF_vars(Tick)

(***************************************************************************)
(* Steps of a behaviour, told by what they do to the session.              *)
(***************************************************************************)
Takes(item) ==
    /\ pc = "waiting"
    /\ rd < Len(sent)
    /\ sent[rd + 1] = item
    /\ rd' = rd + 1

Returns == Len(results') = Len(results) + 1

Returned == Last(results')

DeadlinePassed ==
    /\ pc = "waiting"
    /\ rd = Len(sent)
    /\ ~sock_eof
    /\ clk_wait >= TimeoutSecs

(***************************************************************************)
(* C1.  Closed is terminal: once is_open is false no step of the session   *)
(* makes it true again; is_open is true only as the value the session was  *)
(* constructed with.                                                       *)
(***************************************************************************)
C1_ClosedIsTerminal == [][is_open' => is_open]_vars

C1_Witness ==
    /\ Len(results) >= 2
    /\ results[1].kind = "Closed"
    /\ results[2].kind = "Event"
    /\ ~is_open

(***************************************************************************)
(* C2.  Every Close frame that next() has taken made that call return the  *)
(* Closed error, and the session is closed from then on; after exactly a   *)
(* Binary frame with valid JSON and a Close frame, taken by two calls, the *)
(* results are the decoded Event and then the Closed error.                *)
(***************************************************************************)
C2_CloseFrameCloses ==
    /\ \A i \in 1..rd :
          sent[i].tag = "Close" =>
             /\ ~is_open
             /\ \E j \in 1..Len(results) :
                   /\ results[j].at = i
                   /\ results[j].kind = "Closed"
    /\ \A ev \in EventIds :
          ( /\ rd = 2
            /\ Len(results) = 2
            /\ sent[1] = [tag |-> "Binary", data |-> ev]
            /\ sent[2].tag = "Close" )
          => /\ results[1].kind = "Event" /\ results[1].data = ev
             /\ results[2].kind = "Closed"
             /\ ~is_open

C2_Witness ==
    /\ rd = 2
    /\ Len(results) = 2
    /\ sent[1] = [tag |-> "Binary", data |-> "ev1"]
    /\ sent[2].tag = "Close"
    /\ pc = "idle"

(***************************************************************************)
(* C3.  When the 20 s deadline has passed while next() waits and no item   *)
(* has come, the step next() takes closes the session and returns the idle *)
(* timeout error without waiting again; and the idle timeout error is      *)
(* returned only then.                                                     *)
(***************************************************************************)
C3_IdleTimeoutCloses ==
    [][ /\ (DeadlinePassed /\ sent' = sent /\ sock_eof' = sock_eof)
           => /\ Returns
              /\ Returned.kind = "Timeout"
              /\ pc' = "idle"
              /\ ~is_open'
              /\ rd' = rd
        /\ (Returns /\ Returned.kind = "Timeout") => DeadlinePassed
      ]_vars

C3_Witness ==
    /\ pc = "idle"
    /\ Len(results) >= 1
    /\ Last(results).kind = "Timeout"
    /\ ~is_open
    /\ clk_call >= TimeoutSecs

(***************************************************************************)
(* C4.  A transport error taken from the socket makes next() return an     *)
(* error; an open session is closed by it if and only if the error is      *)
(* Protocol or Io, and any other transport error leaves is_open as it was. *)
(***************************************************************************)
C4_TransportErrors ==
    [][ \A e \in TErrKinds :
          Takes([tag |-> "Err", data |-> e])
          => /\ Returns
             /\ Returned.kind \in ErrKinds
             /\ Returned.at = rd'
             /\ pc' = "idle"
             /\ is_open => (~is_open' <=> e \in {"Protocol", "Io"})
             /\ e \notin {"Protocol", "Io"} => is_open' = is_open
      ]_vars

C4_Witness ==
    /\ Len(results) = 2
    /\ results[1].kind = "Tungstenite"
    /\ results[2].kind = "Fatal"
    /\ sent[1].tag = "Err"
    /\ sent[2].tag = "Err"
    /\ ~is_open

(***************************************************************************)
(* C5.  A Binary frame makes next() return at once: the decoded Event when *)
(* the payload is valid UTF-8 and valid Event JSON, a decode error         *)
(* otherwise; is_open is not changed, and exactly that frame is consumed,  *)
(* so the following call goes on with the frames after it.                 *)
(***************************************************************************)
C5_BinaryFrames ==
    [][ \A p \in Payloads :
          Takes([tag |-> "Binary", data |-> p])
          => /\ Returns
             /\ pc' = "idle"
             /\ Returned.at = rd + 1
             /\ p \in EventIds => (Returned.kind = "Event" /\ Returned.data = p)
             /\ p = "not_utf8" => Returned.kind = "UTF8"
             /\ p = "not_event_json" => Returned.kind = "Json"
             /\ is_open' = is_open
      ]_vars

C5_Witness ==
    /\ Len(results) = 2
    /\ results[1].kind = "Json" /\ results[1].at = 1
    /\ results[2].kind = "Event" /\ results[2].at = 2
    /\ is_open

(***************************************************************************)
(* C6.  A Text, Ping, Pong or Frame message never makes next() return: no  *)
(* result is produced, is_open is not changed, and next() goes on waiting. *)
(***************************************************************************)
C6_IgnoredFrames ==
    [][ \A t \in IgnoredTypes :
          Takes([tag |-> t, data |-> ""])
          => /\ results' = results
             /\ is_open' = is_open
             /\ pc' = "waiting"
      ]_vars

C6_Witness ==
    /\ rd = 2
    /\ sent[1].tag \in {"Ping", "Text"}
    /\ sent[2].tag \in {"Frame", "Pong"}
    /\ pc = "waiting"
    /\ results = <<>>
    /\ is_open

(***************************************************************************)
(* C7.  The idle timeout is returned only when the full timeout has passed *)
(* since the most recent item was taken, ignored frames included, however  *)
(* long ago the call of next() or the session began.                       *)
(***************************************************************************)
C7_DeadlineResets ==
    [][ (Returns /\ Returned.kind = "Timeout") => clk_frame >= TimeoutSecs ]_vars

C7_Witness ==
    /\ pc = "idle"
    /\ Len(results) >= 1
    /\ Last(results).kind = "Timeout"
    /\ rd >= 1
    /\ sent[rd].tag \in IgnoredTypes
    /\ clk_frame >= TimeoutSecs
    /\ clk_frame < clk_call
    /\ clk_call > TimeoutSecs

(***************************************************************************)
(* C8.  Every call of next() eventually returns, whatever the socket does  *)
(* (frames, errors, silence or the end of the stream).                     *)
(***************************************************************************)
C8_NextAlwaysReturns == (pc = "waiting") ~> (pc = "idle")

(***************************************************************************)
(* C9.  A call of next() on a session that is already closed is flagged:   *)
(* it returns an error at once and does not go to the socket.              *)
(***************************************************************************)
C9_NextOnClosedIsFlagged ==
    [][ (pc = "idle" /\ ~is_open) => pc' = "idle" ]_vars

DataOf(s) == [i \in 1..Len(s) |-> s[i].data]

C11_EventsInOrder ==
    /\ DataOf(SelectSeq(results, LAMBDA r : r.kind = "Event"))
          = DataOf(SelectSeq(SubSeq(sent, 1, rd),
                             LAMBDA item : item.tag = "Binary" /\ item.data \in EventIds))
    /\ \A i, j \in 1..Len(results) :
          (i < j /\ results[i].kind # "Timeout" /\ results[j].kind # "Timeout")
             => results[i].at < results[j].at
    /\ (pc = "idle" /\ rd > 0) =>
          \E j \in 1..Len(results) : results[j].at = rd

C11_Witness ==
    /\ Len(results) = 2
    /\ results[1].kind = "Event" /\ results[1].data = "ev2" /\ results[1].at = 1
    /\ results[2].kind = "Event" /\ results[2].data = "ev1" /\ results[2].at = 2
    /\ rd = 2

(***************************************************************************)
(* event_stream(), step by step.  Every await is a step: the reply of the  *)
(* device list, of a device setup, of connect_async, of the send and of    *)
(* the read of the handshake.                                              *)
(***************************************************************************)
stream_vars == <<pc, sent, rd, sock_eof, results, clk_wait, clk_frame, clk_call>>

LogEntry(op, dev, res, final, status) ==
    [op |-> op, dev |-> dev, res |-> res, final |-> final, status |-> status]

Count(log, op) == Cardinality({i \in 1..Len(log) : log[i].op = op})

EsInit ==
    /\ is_open = FALSE
    /\ timeout = 0
    /\ pc = "idle"
    /\ sent = <<>>
    /\ rd = 0
    /\ sock_eof = FALSE
    /\ results = <<>>
    /\ clk_wait = 0
    /\ clk_frame = 0
    /\ clk_call = 0
    /\ es_pc = "idle"
    /\ es_listed = <<>>
    /\ es_cands = <<>>
    /\ es_idx = 0
    /\ es_cur = [dev |-> NoDevice, final |-> FALSE]
    /\ es_log = <<>>
    /\ es_ret = EsPending
    /\ hs = HsNone
    /\ rest = RestIdle
    /\ gid = GidIdle
    /\ merc = MercIdle
    /\ oauth = OauthIdle

(***************************************************************************)
(* connect_device() returns `res` to event_stream(), which returns it or   *)
(* goes on with the loop.  Ok carries the session just constructed.        *)
(***************************************************************************)
OkOrErr(res) == IF res.kind = "Ok" THEN "ok" ELSE "err"

CdReturn(res, dev, final, log, h) ==
    /\ es_log' = Append(log, LogEntry("cd_ret", dev, OkOrErr(res), final, 0))
    /\ hs' = [h EXCEPT !.res = res]
    /\ IF on_cd_result(res, final) = "return"
       THEN /\ es_pc' = "done"
            /\ es_ret' = res
            /\ IF res.kind = "Ok"
               THEN is_open' = TRUE /\ timeout' = TimeoutSecs
               ELSE UNCHANGED <<is_open, timeout>>
       ELSE /\ es_pc' = "loop"
            /\ UNCHANGED <<es_ret, is_open, timeout>>

(***************************************************************************)
(* connect_device(device) is called and runs up to connect_async.          *)
(***************************************************************************)
CdStart(dev, final, log) ==
    /\ es_cur' = [dev |-> dev, final |-> final]
    /\ LET log1 == Append(log, LogEntry("connect_device", dev, "-", final, 0))
           chk == cd_check_url(dev)
           h == [HsNone EXCEPT !.dev = dev.id]
       IN IF chk.kind = "Ok"
          THEN /\ es_pc' = "connecting"
               /\ es_log' = log1
               /\ hs' = h
               /\ UNCHANGED <<es_ret, is_open, timeout>>
          ELSE CdReturn(chk, dev, final, log1, h)

es_Call ==
    /\ es_pc = "idle"
    /\ es_pc' = "list"
    /\ es_log' = Append(es_log, LogEntry("GET devices", NoDevice, "-", FALSE, 0))
    /\ UNCHANGED <<es_listed, es_cands, es_idx, es_cur, es_ret, hs>>
    /\ UNCHANGED <<is_open, timeout>>
    /\ UNCHANGED <<stream_vars, call_vars>>

(***************************************************************************)
(* get_devices(): the reply of GET devices.                                *)
(***************************************************************************)
es_ListReply ==
    /\ es_pc = "list"
    /\ \E resp \in ListResponses :
          LET r == rest_api(resp, "DevicesReply")
              m == get_devices_match(r)
              log1 == Append(es_log,
                        LogEntry("GET reply", NoDevice, OkOrErr(r.err), FALSE, resp.status))
          IN CASE m.act = "devices" ->
                    LET listed == [i \in 1..Len(r.devices) |-> WithId(r.devices[i], i)]
                    IN /\ es_listed' = listed
                       /\ es_cands' \in candidates(listed)
                       /\ es_pc' = "loop"
                       /\ es_log' = log1
                       /\ UNCHANGED es_ret
               [] m.act = "setup" ->
                    /\ es_pc' = "gd_setup"
                    /\ es_log' = Append(log1,
                          LogEntry("POST devices", NoDevice, "-", FALSE, 0))
                    /\ UNCHANGED <<es_listed, es_cands, es_ret>>
               [] m.act = "error" ->
                    /\ es_pc' = "done"
                    /\ es_ret' = m.err
                    /\ es_log' = log1
                    /\ UNCHANGED <<es_listed, es_cands>>
    /\ UNCHANGED <<es_idx, es_cur, hs>>
    /\ UNCHANGED <<is_open, timeout>>
    /\ UNCHANGED <<stream_vars, call_vars>>

(***************************************************************************)
(* get_devices(): the reply of the device setup it chained.                *)
(***************************************************************************)
es_GdSetupReply ==
    /\ es_pc = "gd_setup"
    /\ \E resp \in CreateResponses :
          LET r == rest_api(resp, "DeviceData")
              log1 == Append(es_log,
                        LogEntry("POST reply", NoDevice, OkOrErr(r.err), FALSE, resp.status))
          IN /\ es_log' = log1
             /\ IF r.ok
                THEN LET listed == <<WithId(r.device, 0 - Count(es_log, "POST devices"))>>
                     IN /\ es_listed' = listed
                        /\ es_cands' \in candidates(listed)
                        /\ es_pc' = "loop"
                        /\ UNCHANGED es_ret
                ELSE /\ es_pc' = "done"
                     /\ es_ret' = r.err
                     /\ UNCHANGED <<es_listed, es_cands>>
    /\ UNCHANGED <<es_idx, es_cur, hs>>
    /\ UNCHANGED <<is_open, timeout>>
    /\ UNCHANGED <<stream_vars, call_vars>>

(***************************************************************************)
(* The for loop takes the next device and calls connect_device on it.      *)
(***************************************************************************)
es_NextCandidate ==
    /\ es_pc = "loop"
    /\ es_idx < Len(es_cands)
    /\ es_idx' = es_idx + 1
    /\ CdStart(es_cands[es_idx + 1], FALSE, es_log)
    /\ UNCHANGED <<es_listed, es_cands>>
    /\ UNCHANGED <<stream_vars, call_vars>>

(***************************************************************************)
(* The for loop is over: setup_devices() is called.                        *)
(***************************************************************************)
es_Exhausted ==
    /\ es_pc = "loop"
    /\ es_idx = Len(es_cands)
    /\ IF on_exhausted(es_cands) = "setup"
       THEN /\ es_pc' = "final_setup"
            /\ es_log' = Append(es_log,
                  LogEntry("POST devices", NoDevice, "-", TRUE, 0))
            /\ UNCHANGED es_ret
       ELSE /\ es_pc' = "done"
            /\ es_ret' = EsErr("Text", "no device connected")
            /\ UNCHANGED es_log
    /\ hs' = HsNone
    /\ UNCHANGED <<es_listed, es_cands, es_idx, es_cur>>
    /\ UNCHANGED <<is_open, timeout>>
    /\ UNCHANGED <<stream_vars, call_vars>>

(***************************************************************************)
(* The reply of that setup: its error is returned, its device is connected *)
(* to.                                                                     *)
(***************************************************************************)
es_FinalSetupReply ==
    /\ es_pc = "final_setup"
    /\ \E resp \in CreateResponses :
          LET r == rest_api(resp, "DeviceData")
              log1 == Append(es_log,
                        LogEntry("POST reply", NoDevice, OkOrErr(r.err), TRUE, resp.status))
          IN IF r.ok
             THEN CdStart(WithId(r.device, 0 - Count(es_log, "POST devices")), TRUE, log1)
             ELSE /\ es_pc' = "done"
                  /\ es_ret' = r.err
                  /\ es_log' = log1
                  /\ UNCHANGED <<es_cur, is_open, timeout, hs>>
    /\ UNCHANGED <<es_listed, es_cands, es_idx>>
    /\ UNCHANGED <<stream_vars, call_vars>>

(***************************************************************************)
(* connect_async has answered.                                             *)
(***************************************************************************)
es_ConnectReply ==
    /\ es_pc = "connecting"
    /\ \E ok \in BOOLEAN :
          LET c == cd_on_connect(ok)
              log1 == Append(es_log,
                        LogEntry("connect_async", es_cur.dev,
                                 IF ok THEN "ok" ELSE "err", es_cur.final, 0))
          IN IF c.go = "auth"
             THEN /\ es_pc' = "auth_send"
                  /\ hs' = [hs EXCEPT !.sends = 1]
                  /\ es_log' = log1
                  /\ UNCHANGED <<es_ret, is_open, timeout>>
             ELSE CdReturn(c.res, es_cur.dev, es_cur.final, log1, hs)
    /\ UNCHANGED <<es_listed, es_cands, es_idx, es_cur>>
    /\ UNCHANGED <<stream_vars, call_vars>>

(***************************************************************************)
(* auth(): the send of the authorization frame has ended.                  *)
(***************************************************************************)
es_SendDone ==
    /\ es_pc = "auth_send"
    /\ \E ok \in BOOLEAN :
          LET a == auth_on_send(ok)
          IN IF a.go = "read"
             THEN /\ es_pc' = "auth_read"
                  /\ hs' = [hs EXCEPT !.send_ok = ok]
                  /\ UNCHANGED <<es_log, es_ret, is_open, timeout>>
             ELSE CdReturn(a.res, es_cur.dev, es_cur.final, es_log,
                           [hs EXCEPT !.send_ok = ok])
    /\ UNCHANGED <<es_listed, es_cands, es_idx, es_cur>>
    /\ UNCHANGED <<stream_vars, call_vars>>

(***************************************************************************)
(* auth(): ws_stream.next() has answered.                                  *)
(***************************************************************************)
es_ReadDone ==
    /\ es_pc = "auth_read"
    /\ \E reply \in {"Ping", "Pong", "Text", "Binary", "Close", "Frame", "Err", "End"} :
          CdReturn(auth_on_reply(reply), es_cur.dev, es_cur.final, es_log,
                   [hs EXCEPT !.reads = hs.reads + 1, !.reply = reply])
    /\ UNCHANGED <<es_listed, es_cands, es_idx, es_cur>>
    /\ UNCHANGED <<stream_vars, call_vars>>

EsNext ==
    \/ es_Call
    \/ es_ListReply
    \/ es_GdSetupReply
    \/ es_NextCandidate
    \/ es_Exhausted
    \/ es_FinalSetupReply
    \/ es_ConnectReply
    \/ es_SendDone
    \/ es_ReadDone

EsSpec == EsInit /\ [][EsNext]_vars

(***************************************************************************)
(* Readings of es_log.                                                     *)
(***************************************************************************)
CandidateCalls == SelectSeq(es_log, LAMBDA e : e.op = "connect_device" /\ ~e.final)

Entries(op, final) ==
    {i \in 1..Len(es_log) : es_log[i].op = op /\ es_log[i].final = final}

HandshakeDone == hs.sends = 1 /\ hs.res # EsPending

HandshakeOk ==
    /\ hs.sends = 1 /\ hs.send_ok
    /\ hs.reads = 1 /\ hs.reply \in {"Ping", "Pong"}

(***************************************************************************)
(* C12.  A session is open only when event_stream() has returned it, and   *)
(* then for the device it was made for connect_async had succeeded, the    *)
(* authorization frame had been sent and a Ping or Pong had been read.     *)
(***************************************************************************)
C12_OpenOnlyAfterHandshake ==
    is_open =>
       /\ es_pc = "done"
       /\ es_ret = EsOk
       /\ timeout = TimeoutSecs
       /\ hs.dev = es_cur.dev.id
       /\ HandshakeOk
       /\ Len(es_log) >= 2
       /\ es_log[Len(es_log) - 1] =
             LogEntry("connect_async", es_cur.dev, "ok", es_cur.final, 0)
       /\ Last(es_log) = LogEntry("cd_ret", es_cur.dev, "ok", es_cur.final, 0)

C12_Witness ==
    /\ is_open
    /\ hs.reply = "Pong"
    /\ es_cur.dev.id = 2
    /\ es_idx = 2

(***************************************************************************)
(* C13.  The handshake sends one frame and then reads one frame; it        *)
(* succeeds if and only if the send succeeded and the frame read is a Ping *)
(* or a Pong; a failed send is a Tungstenite error and nothing is read.    *)
(***************************************************************************)
C13_Handshake ==
    /\ hs.sends \in 0..1
    /\ hs.reads \in 0..1
    /\ hs.reads = 1 => (hs.sends = 1 /\ hs.send_ok)
    /\ es_pc = "auth_read" => (hs.sends = 1 /\ hs.send_ok /\ hs.reads = 0)
    /\ HandshakeDone =>
          /\ hs.res.kind = "Ok" <=> HandshakeOk
          /\ hs.send_ok => hs.reads = 1
          /\ ~hs.send_ok => (hs.reads = 0 /\ hs.res.kind = "Tungstenite")
          /\ (hs.send_ok /\ hs.reply \notin {"Ping", "Pong"}) => hs.res.kind = "Text"

C13_Witness ==
    /\ HandshakeDone
    /\ hs.send_ok
    /\ hs.reply = "Close"
    /\ hs.res.kind = "Text"
    /\ es_pc = "loop"

(***************************************************************************)
(* C14.  First success wins: a connect_device() that succeeded is the last *)
(* thing event_stream() did, and its session is what the call returned.    *)
(***************************************************************************)
C14_FirstSuccessWins ==
    \A i \in 1..Len(es_log) :
       (es_log[i].op = "cd_ret" /\ es_log[i].res = "ok") =>
          /\ i = Len(es_log)
          /\ es_pc = "done"
          /\ es_ret = EsOk

C14_Witness ==
    /\ es_pc = "done"
    /\ es_ret = EsOk
    /\ es_idx = 1
    /\ Len(es_cands) = 3
    /\ ~es_cur.final

(***************************************************************************)
(* C15.  A candidate that fails, at connect or in the handshake, does not  *)
(* end event_stream(): the loop goes on with the next candidate in rank    *)
(* order, and the fallback comes only when all candidates have been taken. *)
(***************************************************************************)
C15_FailuresAreSkipped ==
    /\ \A i \in 1..Len(es_log) :
          (es_log[i].op = "cd_ret" /\ es_log[i].res = "err" /\ ~es_log[i].final) =>
             IF i = Len(es_log)
             THEN es_pc = "loop" /\ es_ret = EsPending
             ELSE es_log[i + 1].op \in {"connect_device", "POST devices"}
    /\ Len(CandidateCalls) = es_idx
    /\ \A j \in 1..Len(CandidateCalls) : CandidateCalls[j].dev = es_cands[j]
    /\ (Entries("POST devices", TRUE) # {}) => es_idx = Len(es_cands)

C15_Witness ==
    /\ es_idx = 3
    /\ es_pc = "connecting"
    /\ \E i, j \in 1..Len(es_log) :
          /\ i < j
          /\ es_log[i].op = "connect_async" /\ es_log[i].res = "err"
          /\ es_log[j].op = "connect_async" /\ es_log[j].res = "ok"
          /\ es_log[j + 1].op = "cd_ret" /\ es_log[j + 1].res = "err"

(***************************************************************************)
(* C16.  When the candidates are exhausted a new device is set up, once,   *)
(* and connect_device() is called on it, once; an error of the setup or of *)
(* that call ends event_stream() and is what it returns.                   *)
(***************************************************************************)
C16_FallbackIsFinal ==
    /\ Cardinality(Entries("POST devices", TRUE)) <= 1
    /\ Cardinality(Entries("connect_device", TRUE)) <= 1
    /\ \A i \in Entries("POST devices", TRUE) :
          /\ es_idx = Len(es_cands)
          /\ Cardinality(Entries("cd_ret", FALSE)) = Len(es_cands)
          /\ \A k \in Entries("cd_ret", FALSE) : k < i /\ es_log[k].res = "err"
    /\ \A i \in Entries("connect_device", TRUE) :
          /\ es_log[i - 1].op = "POST reply" /\ es_log[i - 1].res = "ok"
          /\ es_log[i].dev.id < 0
    /\ \A i \in Entries("POST reply", TRUE) :
          es_log[i].res = "err" =>
             (i = Len(es_log) /\ es_pc = "done" /\ es_ret.kind = "Reqwest")
    /\ \A i \in Entries("cd_ret", TRUE) :
          /\ i = Len(es_log)
          /\ es_pc = "done"
          /\ es_ret = hs.res
    /\ (es_pc = "done" /\ CandidateCalls # <<>> /\ es_ret.kind # "Ok") =>
          Entries("POST devices", TRUE) # {}
    /\ (es_pc = "done" /\ es_ret.kind # "Ok" /\ es_log[2].res = "ok"
           /\ Entries("POST devices", FALSE) = {}) =>
          Entries("POST devices", TRUE) # {}

C16_Witness ==
    /\ es_pc = "done"
    /\ es_ret.kind = "Tungstenite"
    /\ Last(es_log) = LogEntry("cd_ret", es_cur.dev, "err", TRUE, 0)
    /\ Len(es_cands) >= 1
    /\ hs.sends = 1

(***************************************************************************)
(* C17.  When the device list reports no devices (an empty list or none),  *)
(* event_stream() makes one device setup call and then, on the device it   *)
(* got, one connection attempt, however that attempt ends.                 *)
(***************************************************************************)
NoDevicesListed ==
    /\ Len(es_log) >= 2
    /\ es_log[2].op = "GET reply" /\ es_log[2].res = "ok"
    /\ \/ Entries("POST devices", FALSE) # {}
       \/ es_pc \notin {"list", "gd_setup"} /\ es_listed = <<>>

C17_OneSetupOneConnect ==
    (es_pc = "done" /\ NoDevicesListed) =>
       /\ Count(es_log, "POST devices") = 1
       /\ Count(es_log, "connect_device") <= 1
       /\ \A i \in 1..Len(es_log) :
             (es_log[i].op = "POST reply" /\ es_log[i].res = "ok") =>
                /\ Count(es_log, "connect_device") = 1
                /\ \A k \in 1..Len(es_log) :
                      es_log[k].op = "connect_device" => es_log[k].dev.id = -1

(***************************************************************************)
(* C18.  event_stream() returns an error if and only if no device, listed  *)
(* or just created, connected and authenticated; otherwise it returns the  *)
(* open session.                                                           *)
(***************************************************************************)
C18_ErrorIffNoneConnected ==
    es_pc = "done" =>
       /\ es_ret.kind # "Ok" <=>
             ~\E i \in 1..Len(es_log) : es_log[i].op = "cd_ret" /\ es_log[i].res = "ok"
       /\ es_ret.kind = "Ok" <=> is_open

C18_Witness ==
    /\ es_pc = "done"
    /\ es_ret.kind # "Ok"
    /\ Len(CandidateCalls) = 2
    /\ Entries("cd_ret", TRUE) # {}
    /\ ~is_open

(***************************************************************************)
(* C19.  A REST reply with a rate-limit status ends event_stream(): the    *)
(* Limited error is returned, and no device setup and no connection        *)
(* attempt follows.                                                        *)
(***************************************************************************)
C19_RateLimitIsReturned ==
    \A i \in 1..Len(es_log) :
       (es_log[i].op \in {"GET reply", "POST reply"} /\ es_log[i].status \in {423, 429}) =>
          /\ i = Len(es_log)
          /\ es_pc = "done"
          /\ es_ret.kind = "Limited"

(***************************************************************************)
(* C20.  The candidates are attempted in descending order of modification  *)
(* time: of two attempted devices that have one, the one attempted first   *)
(* is not the older; every kept device of the list is a candidate.         *)
(***************************************************************************)
C20_DescendingByTime ==
    /\ \A i, j \in 1..Len(CandidateCalls) :
          ( /\ i < j
            /\ CandidateCalls[i].dev.mtime # 0
            /\ CandidateCalls[j].dev.mtime # 0 )
          => CandidateCalls[i].dev.mtime >= CandidateCalls[j].dev.mtime
    /\ \A i, j \in 1..Len(es_cands) :
          (i < j /\ es_cands[i].mtime # 0 /\ es_cands[j].mtime # 0)
          => es_cands[i].mtime >= es_cands[j].mtime
    /\ es_pc \notin {"idle", "list", "gd_setup"} =>
          /\ {es_cands[i] : i \in 1..Len(es_cands)}
                = {es_listed[i] : i \in {k \in 1..Len(es_listed) : es_listed[k].name = DeviceName}}
          /\ Len(es_cands) = Cardinality({k \in 1..Len(es_listed) : es_listed[k].name = DeviceName})

C20_Witness ==
    /\ Len(CandidateCalls) = 3
    /\ CandidateCalls[1].dev.mtime = 3 /\ CandidateCalls[1].dev.id = 3
    /\ CandidateCalls[2].dev.mtime = 2 /\ CandidateCalls[2].dev.id = 2
    /\ CandidateCalls[3].dev.mtime = 1 /\ CandidateCalls[3].dev.id = 1

(***************************************************************************)
(* C21.  connect_async is never started for a device without ws_url: the   *)
(* connect_device() call on it returns an error at once, and in the loop   *)
(* the next candidate is tried.                                            *)
(***************************************************************************)
C21_NoUrlNoConnect ==
    /\ es_pc \in {"connecting", "auth_send", "auth_read"} => es_cur.dev.ws_url = "wss"
    /\ \A i \in 1..Len(es_log) :
          /\ es_log[i].op = "connect_async" => es_log[i].dev.ws_url = "wss"
          /\ (es_log[i].op = "connect_device" /\ es_log[i].dev.ws_url = "none") =>
                /\ i < Len(es_log)
                /\ es_log[i + 1] = LogEntry("cd_ret", es_log[i].dev, "err", es_log[i].final, 0)
                /\ (i + 1 = Len(es_log) /\ ~es_log[i].final) =>
                      (es_pc = "loop" /\ hs.res = EsErr("Text", "Device has no ws_url"))
                /\ (i + 1 < Len(es_log)) =>
                      es_log[i + 2].op \in {"connect_device", "POST devices"}

C21_Witness ==
    /\ es_pc = "connecting"
    /\ es_idx = 2
    /\ es_cands[1].ws_url = "none"
    /\ es_cands[2].ws_url = "wss"
    /\ Len(es_cands) = 3

(***************************************************************************)
(* C22.  A device of the list is passed to connect_device() only if its    *)
(* name is the client's device name; a listed device with another name is  *)
(* never a candidate and never connected to.                               *)
(***************************************************************************)
C22_OnlyOwnName ==
    /\ \A j \in 1..Len(es_cands) : es_cands[j].name = DeviceName
    /\ \A i \in 1..Len(es_log) :
          (es_log[i].op \in {"connect_device", "connect_async", "cd_ret"}
              /\ ~es_log[i].final)
          => es_log[i].dev.name = DeviceName
    /\ (es_pc \in {"connecting", "auth_send", "auth_read"} /\ ~es_cur.final) =>
          es_cur.dev.name = DeviceName

C22_Witness ==
    /\ es_pc = "done"
    /\ Len(es_listed) = 3
    /\ es_listed[1].name = OtherName
    /\ Len(CandidateCalls) = 2
    /\ Entries("connect_async", FALSE) # {}

(***************************************************************************)
(* One call of RestClient::rest_api::<T> on its own: the request is sent,  *)
(* then the response, with its status, its Retry-After header and its      *)
(* body, is turned into the result of the call.                            *)
(***************************************************************************)
RestTypes == {"DevicesReply", "DeviceData", "Unit"}

RetryAfterHeaders == {"absent", "5", "soon"}

RestResponse(status, body) ==
    [net |-> "ok", status |-> status, body |-> body, devices |-> <<>>,
     device |-> IF body = "device"
                THEN WithId([name |-> DeviceName, ws_url |-> "wss", mtime |-> MaxTs], 0)
                ELSE NoDevice]

RestResponses ==
    {NetFailure}
    \cup {RestResponse(st, b) :
             st \in {200, 204, 404, 423, 429, 500},
             b \in {"empty", "null", "object", "device", "devices", "not_json"}}

rest_Send ==
    /\ rest.pc \in {"idle", "done"}
    /\ \E T \in RestTypes : rest' = [RestIdle EXCEPT !.pc = "sent", !.T = T]
    /\ UNCHANGED <<session_vars, es_vars, gid, merc, oauth>>

rest_Reply ==
    /\ rest.pc = "sent"
    /\ \E resp \in RestResponses, h \in RetryAfterHeaders :
          rest' = [rest EXCEPT !.pc = "done", !.resp = resp, !.retry_after = h,
                               !.ret = rest_api(resp, rest.T).err]
    /\ UNCHANGED <<session_vars, es_vars, gid, merc, oauth>>

RestNext ==
    \/ rest_Send
    \/ rest_Reply

RestSpec == EsInit /\ [][RestNext]_vars

RestAnswered == rest.pc = "done" /\ rest.resp.net = "ok"

IsSuccessStatus(st) == st \in 200..299

IsRateLimitStatus(st) == st \in {423, 429}

(***************************************************************************)
(* C27.  A response with status 423 or 429 gives the Limited error, with   *)
(* the number of the Retry-After header when it has one and None when the  *)
(* header is absent or not a number, whatever the body is.                 *)
(***************************************************************************)
C27_RateLimitIsClassified ==
    (RestAnswered /\ IsRateLimitStatus(rest.resp.status)) =>
       /\ rest.ret.kind = "Limited"
       /\ rest.ret.data = IF rest.retry_after = "5" THEN "Some(5)" ELSE "None"

(***************************************************************************)
(* C28.  A response whose status is neither 2xx nor 423/429 gives a Status *)
(* error with that status; it is never decoded into a successful value.    *)
(***************************************************************************)
C28_NonSuccessIsStatusError ==
    (RestAnswered /\ ~IsSuccessStatus(rest.resp.status)
        /\ ~IsRateLimitStatus(rest.resp.status)) =>
       /\ rest.ret.kind \in {"Status", "StatusText"}
       /\ rest.ret.status = rest.resp.status

(***************************************************************************)
(* C29.  A 2xx response with an empty body makes a call that returns unit, *)
(* as api_delete does, succeed.                                            *)
(***************************************************************************)
C29_EmptyBodyIsUnit ==
    (RestAnswered /\ IsSuccessStatus(rest.resp.status)
        /\ rest.resp.body = "empty" /\ rest.T = "Unit") =>
       rest.ret.kind = "Ok"

(***************************************************************************)
(* GlobalId.  A string is modelled by what the code looks at: either the   *)
(* text itself (t = "raw") or the base64 encoding of a byte string         *)
(* (t = "b64"); the text, or the bytes encoded, are given by `parts`, what *)
(* split('/') makes of them, and utf8 tells whether the bytes are UTF-8.   *)
(* The simple form of a UUID, 32 hexadecimal digits, is accepted by        *)
(* Uuid::parse_str and is also well-formed base64 (32 characters of the    *)
(* standard alphabet): it decodes to 24 bytes.                             *)
(***************************************************************************)
MaxUuids == 2

HyphenatedUuids ==
    {"67e55044-10b1-426f-9247-bb680e5fe0c8", "936da01f-9abd-4d9d-80c7-02af85c822a8",
     "0a7b3c1d-2e4f-4a6b-8c9d-0e1f2a3b4c5d"}

SimpleUuids ==
    {"67e5504410b1426f9247bb680e5fe0c8", "936da01f9abd4d9d80c702af85c822a8",
     "0a7b3c1d2e4f4a6b8c9d0e1f2a3b4c5d"}

UrnUuids == {"urn:uuid:67e55044-10b1-426f-9247-bb680e5fe0c8"}

AllUuidStrings == HyphenatedUuids \cup SimpleUuids \cup UrnUuids

Nth(S, n) == CHOOSE f \in [1..n -> S] : \A i, j \in 1..n : i # j => f[i] # f[j]

Raw(x) == [t |-> "raw", utf8 |-> TRUE, parts |-> <<x>>]

B64(parts) == [t |-> "b64", utf8 |-> TRUE, parts |-> parts]

Clusters == {"us", "eu"}

GlobalIdTypes == {"Message", "Person", "Room", "AttachmentAction", "Unknown"}

ConcreteTypes == GlobalIdTypes \ {"Unknown"}

(***************************************************************************)
(* Display for GlobalIdType.                                               *)
(***************************************************************************)
type_to_string(type_) ==
    CASE type_ = "Message" -> "MESSAGE"
      [] type_ = "Person" -> "PEOPLE"
      [] type_ = "Room" -> "ROOM"
      [] type_ = "AttachmentAction" -> "ATTACHMENT_ACTION"
      [] OTHER -> "<UNKNOWN>"

Uri(cluster, kind, uuid) == <<"ciscospark:", "", cluster, kind, uuid>>

(***************************************************************************)
(* The ids given to the constructors: UUIDs in their forms, base64 ids of  *)
(* every cluster and kind, base64 of texts that are not such a URI, base64 *)
(* of bytes that are not UTF-8, and strings that are neither.              *)
(***************************************************************************)
UuidIds ==
    {Raw(u) : u \in {Nth(HyphenatedUuids, MaxUuids)[i] : i \in 1..MaxUuids}
                      \cup {Nth(SimpleUuids, MaxUuids)[i] : i \in 1..MaxUuids}
                      \cup UrnUuids}

UriIds ==
    {B64(Uri(c, type_to_string(k), u)) :
        c \in Clusters, k \in ConcreteTypes,
        u \in {Nth(HyphenatedUuids, MaxUuids)[1]}}

BadIds ==
    {Raw("not an id"), Raw(""), [t |-> "b64", utf8 |-> FALSE, parts |-> <<"bytes">>],
     B64(<<"ciscospark:", "", "us", "MESSAGE">>),
     B64(<<"https:", "", "us", "MESSAGE", "67e55044-10b1-426f-9247-bb680e5fe0c8">>),
     B64(<<"ciscospark:", "x", "us", "MESSAGE", "67e55044-10b1-426f-9247-bb680e5fe0c8">>),
     B64(<<"ciscospark:", "", "us", "MESSAGE", "67e55044-10b1-426f-9247-bb680e5fe0c8", "x">>),
     B64(Uri("us", "TEAM", "67e55044-10b1-426f-9247-bb680e5fe0c8")),
     B64(Uri("us", "<UNKNOWN>", "67e55044-10b1-426f-9247-bb680e5fe0c8"))}

(***************************************************************************)
(* Uuid::parse_str(&id).is_ok() and STANDARD.decode(&id).                  *)
(***************************************************************************)
Uuid_parse_ok(id) == id.t = "raw" /\ id.parts[1] \in AllUuidStrings

base64_decode(id) ==
    IF id.t = "b64"
    THEN [ok |-> TRUE, utf8 |-> id.utf8, parts |-> id.parts]
    ELSE IF id.parts[1] \in SimpleUuids
         THEN [ok |-> TRUE, utf8 |-> FALSE, parts |-> <<"bytes">>]
         ELSE IF id.parts[1] = ""
              THEN [ok |-> TRUE, utf8 |-> TRUE, parts |-> <<"">>]
              ELSE [ok |-> FALSE, utf8 |-> FALSE, parts |-> <<>>]

base64_encode(parts) == B64(parts)

(***************************************************************************)
(* A check_id that does not compare the cluster segment.                   *)
(***************************************************************************)
check_id_ignores_cluster(parts, cluster, type_str) ==
    IF Len(parts) # 5 \/ parts[1] # "ciscospark:" \/ parts[2] # ""
    THEN "Expected base64 ID to be in the form ciscospark://[cluster]/[type]/[id]"
    ELSE IF cluster = "None" /\ parts[4] # type_str
         THEN "Expected base64 type to equal"
         ELSE "ok"

check_id(parts, cluster, type_str) ==
    IF Len(parts) # 5 \/ parts[1] # "ciscospark:" \/ parts[2] # ""
    THEN "Expected base64 ID to be in the form ciscospark://[cluster]/[type]/[id]"
    ELSE IF cluster # "None"
         THEN IF parts[3] # cluster
              THEN "Expected base64 cluster to equal expected cluster"
              ELSE "ok"
         ELSE IF parts[4] # type_str
              THEN "Expected base64 type to equal"
              ELSE "ok"

(***************************************************************************)
(* GlobalId::new_with_cluster_unchecked: a UUID is put into the URI and    *)
(* encoded; any other id is kept as it is.                                 *)
(***************************************************************************)
unwrap_or_us(cluster) == IF cluster = "None" THEN "us" ELSE cluster

new_with_cluster_unchecked(type_, id, cluster) ==
    [id |-> IF Uuid_parse_ok(id)
            THEN base64_encode(<<"ciscospark:", "", unwrap_or_us(cluster),
                                 type_to_string(type_)>> \o id.parts)
            ELSE id,
     type_ |-> type_]

NoGlobalId == [id |-> Raw(""), type_ |-> "Unknown"]

GidOk(g) == [ok |-> TRUE, err |-> "", g |-> g]

GidErr(e) == [ok |-> FALSE, err |-> e, g |-> NoGlobalId]

(***************************************************************************)
(* GlobalId::new_with_cluster (GlobalId::new is the same with no cluster). *)
(***************************************************************************)
new_with_cluster(type_, id, cluster) ==
    IF type_ = "Unknown"
    THEN GidErr("Cannot get globalId for unknown ID type")
    ELSE LET d == base64_decode(id)
         IN IF d.ok
            THEN IF ~d.utf8
                 THEN GidErr("Failed to turn base64 id into UTF8 string")
                 ELSE LET c == check_id(d.parts, cluster, type_to_string(type_))
                      IN IF c # "ok"
                         THEN GidErr(c)
                         ELSE GidOk(new_with_cluster_unchecked(type_, id, cluster))
            ELSE IF ~Uuid_parse_ok(id)
                 THEN GidErr("Expected ID to be base64 geo-id or uuid")
                 ELSE GidOk(new_with_cluster_unchecked(type_, id, cluster))

(***************************************************************************)
(* GlobalId::check_type.                                                   *)
(***************************************************************************)
check_type(g, expected_type) == expected_type = g.type_

(***************************************************************************)
(* Events, as far as activity_type and get_global_id read them: the        *)
(* event_type, the activity if there is one (its verb and its id), and the *)
(* id of the event.                                                        *)
(***************************************************************************)
EventTypes ==
    {"conversation.activity", "conversation.highlight", "status.start_typing",
     "locus.difference", "janus.user_sessions", "apheleia.subscription_update"}

MessageVerbs == {"post", "share", "acknowledge", "delete"}

SpaceVerbs ==
    {"create", "add", "leave", "lock", "unlock", "update", "assign", "unassign",
     "schedule", "assignModerator", "unassignModerator"}

EventIdStrings ==
    {Raw("67e55044-10b1-426f-9247-bb680e5fe0c8"),
     Raw("67e5504410b1426f9247bb680e5fe0c8"),
     B64(Uri("us", "MESSAGE", "67e55044-10b1-426f-9247-bb680e5fe0c8")),
     Raw("not an id")}

Events ==
    [event_type : EventTypes, has_activity : {TRUE},
     verb : MessageVerbs \cup SpaceVerbs \cup {"cardAction", "tombstone", ""},
     activity_id : EventIdStrings, id : {Raw("936da01f-9abd-4d9d-80c7-02af85c822a8")}]
    \cup [event_type : EventTypes, has_activity : {FALSE}, verb : {""},
          activity_id : {Raw("")}, id : EventIdStrings]

(***************************************************************************)
(* TryFrom<&str> for MessageActivity and for SpaceActivity.                *)
(***************************************************************************)
MessageActivity_try_from(v) ==
    CASE v = "post" -> "Posted"
      [] v = "share" -> "Shared"
      [] v = "acknowledge" -> "Acknowledged"
      [] v = "delete" -> "Deleted"
      [] OTHER -> "Err"

SpaceActivity_try_from(v) ==
    CASE v = "create" -> "Created"
      [] v = "add" -> "Joined"
      [] v = "leave" -> "Left"
      [] v = "lock" -> "Locked"
      [] v = "unlock" -> "Unlocked"
      [] v \in {"update", "assign", "unassign"} -> "Changed"
      [] v = "schedule" -> "MeetingScheduled"
      [] v = "assignModerator" -> "ModeratorAssigned"
      [] v = "unassignModerator" -> "ModeratorUnassigned"
      [] OTHER -> "Err"

ActivityType(tag, sub) == [tag |-> tag, sub |-> sub]

Panic == ActivityType("panic", "Conversation activity should have activity set")

(***************************************************************************)
(* Event::activity_type.                                                   *)
(***************************************************************************)
activity_type_card_is_message(e) ==
    IF e.event_type = "conversation.activity"
    THEN IF ~e.has_activity
         THEN Panic
         ELSE IF e.verb \in MessageVerbs \cup {"cardAction"}
              THEN ActivityType("Message", "Posted")
              ELSE ActivityType("Unknown", "conversation.activity." \o e.verb)
    ELSE ActivityType("Unknown", e.event_type)

activity_type(e) ==
    IF e.event_type = "conversation.activity"
    THEN IF ~e.has_activity
         THEN Panic
         ELSE IF e.verb = "cardAction"
              THEN ActivityType("AdaptiveCardSubmit", "")
              ELSE IF MessageActivity_try_from(e.verb) # "Err"
                   THEN ActivityType("Message", MessageActivity_try_from(e.verb))
                   ELSE IF SpaceActivity_try_from(e.verb) # "Err"
                        THEN ActivityType("Space", SpaceActivity_try_from(e.verb))
                        ELSE ActivityType("Unknown", "conversation.activity." \o e.verb)
    ELSE CASE e.event_type = "conversation.highlight" -> ActivityType("Highlight", "")
           [] e.event_type = "status.start_typing" -> ActivityType("StartTyping", "")
           [] e.event_type = "locus.difference" -> ActivityType("Locus", "")
           [] e.event_type = "janus.user_sessions" -> ActivityType("Janus", "")
           [] OTHER -> ActivityType("Unknown", e.event_type)

(***************************************************************************)
(* From<ActivityType> for GlobalIdType.                                    *)
(***************************************************************************)
GlobalIdType_from(a) ==
    CASE a.tag = "Message" -> "Message"
      [] a.tag = "AdaptiveCardSubmit" -> "AttachmentAction"
      [] OTHER -> "Unknown"

(***************************************************************************)
(* Event::get_global_id: activity_type() is evaluated first, and its panic *)
(* is the panic of the call.                                               *)
(***************************************************************************)
get_global_id(e) ==
    LET a == activity_type(e)
    IN IF a = Panic
       THEN [panicked |-> TRUE, g |-> NoGlobalId]
       ELSE [panicked |-> FALSE,
             g |-> new_with_cluster_unchecked(GlobalIdType_from(a),
                      IF e.has_activity THEN e.activity_id ELSE e.id, "None")]

(***************************************************************************)
(* Webex::get::<T>, Webex::delete::<T> and Webex::edit_message: the path   *)
(* is made of the endpoint and id.id(), and the request is issued.         *)
(***************************************************************************)
api_endpoint(T) ==
    CASE T = "Message" -> "messages"
      [] T = "Room" -> "rooms"
      [] T = "Person" -> "people"
      [] OTHER -> "attachment/actions"

webex_request(op, T, g) ==
    [issued |-> TRUE,
     method |-> CASE op = "get" -> "GET" [] op = "delete" -> "DELETE" [] OTHER -> "PUT",
     endpoint |-> api_endpoint(T),
     id |-> g.id]

(***************************************************************************)
(* The uses of GlobalId, one at a time, on every input.                    *)
(***************************************************************************)
gid_New ==
    /\ \E type_ \in GlobalIdTypes, id \in UuidIds \cup UriIds \cup BadIds,
          cluster \in {"None"} \cup Clusters,
          checked \in BOOLEAN :
          gid' = [op |-> "new", checked |-> checked, type_ |-> type_, id |-> id,
                  cluster |-> cluster,
                  res |-> IF checked
                          THEN new_with_cluster(type_, id, cluster)
                          ELSE GidOk(new_with_cluster_unchecked(type_, id, cluster))]
    /\ UNCHANGED <<session_vars, es_vars, rest, merc, oauth>>

gid_FromEvent ==
    /\ \E e \in Events :
          gid' = [op |-> "event", event |-> e, activity |-> activity_type(e),
                  res |-> get_global_id(e)]
    /\ UNCHANGED <<session_vars, es_vars, rest, merc, oauth>>

gid_Request ==
    /\ \E op \in {"get", "delete", "edit_message"},
          T \in {"Message", "Room", "Person", "AttachmentAction"},
          g \in {new_with_cluster_unchecked(k, id, "None") :
                    k \in GlobalIdTypes, id \in UuidIds \cup UriIds} :
          /\ op = "edit_message" => T = "Message"
          /\ gid' = [op |-> "request", call |-> op, T |-> T, g |-> g,
                     req |-> webex_request(op, T, g)]
    /\ UNCHANGED <<session_vars, es_vars, rest, merc, oauth>>

GidNext ==
    \/ gid_New
    \/ gid_FromEvent
    \/ gid_Request

GidSpec == EsInit /\ [][GidNext]_vars

(***************************************************************************)
(* C23.  Constructing a GlobalId from a concrete kind and a UUID string    *)
(* succeeds; its id is the base64 encoding of                              *)
(* ciscospark://<cluster or us>/<KIND>/<uuid>, and decoding that id gives  *)
(* the kind and the UUID string back.                                      *)
(***************************************************************************)
C23_UuidRoundTrip ==
    (gid.op = "new" /\ Uuid_parse_ok(gid.id) /\ gid.type_ \in ConcreteTypes) =>
       /\ gid.res.ok
       /\ gid.res.g.type_ = gid.type_
       /\ gid.res.g.id = B64(Uri(unwrap_or_us(gid.cluster), type_to_string(gid.type_),
                                 gid.id.parts[1]))
       /\ LET d == base64_decode(gid.res.g.id)
          IN /\ d.ok /\ d.utf8 /\ Len(d.parts) = 5
             /\ {k \in ConcreteTypes : type_to_string(k) = d.parts[4]} = {gid.type_}
             /\ d.parts[5] = gid.id.parts[1]

(***************************************************************************)
(* C24.  Checked construction from a base64 id of kind k1, with no         *)
(* expected cluster or with the cluster of the id, succeeds if and only if *)
(* the expected kind is k1.                                                *)
(***************************************************************************)
C24_KindMismatchIsRejected ==
    ( /\ gid.op = "new" /\ gid.checked
      /\ gid.id \in UriIds
      /\ gid.type_ \in ConcreteTypes
      /\ gid.cluster \in {"None", gid.id.parts[3]} )
    => /\ gid.res.ok <=> type_to_string(gid.type_) = gid.id.parts[4]
       /\ gid.res.ok => type_to_string(gid.res.g.type_) = gid.id.parts[4]

(***************************************************************************)
(* C25.  get, delete and edit_message issue no request when the kind of    *)
(* the GlobalId is not the kind of the resource asked for.                 *)
(***************************************************************************)
C25_KindIsAsserted ==
    (gid.op = "request" /\ ~check_type(gid.g, gid.T)) => ~gid.req.issued

(***************************************************************************)
(* C26.  get_global_id returns a GlobalId for every event, and the         *)
(* unchecked constructor returns one for every kind, id and cluster.       *)
(***************************************************************************)
C26_UncheckedNeverFails ==
    /\ gid.op = "event" => ~gid.res.panicked
    /\ (gid.op = "new" /\ ~gid.checked) => gid.res.ok

(***************************************************************************)
(* C30.  activity_type: conversation.activity with verb post, share,       *)
(* acknowledge, delete is Message(Posted, Shared, Acknowledged, Deleted),  *)
(* with cardAction AdaptiveCardSubmit, with a space verb Space(..), with   *)
(* another verb v Unknown("conversation.activity.v");                      *)
(* conversation.highlight is Highlight; an event_type e that is not        *)
(* recognised is Unknown(e).                                               *)
(***************************************************************************)
C30_ActivityType ==
    gid.op = "event" =>
       LET e == gid.event
           a == gid.activity
       IN /\ (e.event_type = "conversation.activity" /\ e.has_activity) =>
                /\ e.verb = "post" => a = ActivityType("Message", "Posted")
                /\ e.verb = "share" => a = ActivityType("Message", "Shared")
                /\ e.verb = "acknowledge" => a = ActivityType("Message", "Acknowledged")
                /\ e.verb = "delete" => a = ActivityType("Message", "Deleted")
                /\ e.verb = "cardAction" => a = ActivityType("AdaptiveCardSubmit", "")
                /\ e.verb \in SpaceVerbs => (a.tag = "Space" /\ a.sub # "Err")
                /\ e.verb \notin MessageVerbs \cup SpaceVerbs \cup {"cardAction"} =>
                      a = ActivityType("Unknown", "conversation.activity." \o e.verb)
          /\ e.event_type = "conversation.highlight" => a = ActivityType("Highlight", "")
          /\ e.event_type \notin {"conversation.activity", "conversation.highlight",
                                  "status.start_typing", "locus.difference",
                                  "janus.user_sessions"} =>
                a = ActivityType("Unknown", e.event_type)

C30_Witness ==
    /\ gid.op = "event"
    /\ gid.event.event_type = "conversation.activity"
    /\ gid.event.verb = "tombstone"
    /\ gid.activity = ActivityType("Unknown", "conversation.activity.tombstone")

(***************************************************************************)
(* C31.  A get_devices() that succeeds returns at least one device; when   *)
(* the list was empty or absent, or the reply was 404, it has made one     *)
(* device-creation call and returns the created device alone.              *)
(***************************************************************************)
C31_NeverAnEmptyList ==
    LET GetDevicesReturned == es_pc \notin {"idle", "list", "gd_setup"}
        GetDevicesChained ==
            Len(es_log) >= 3 /\ es_log[3].op = "POST devices" /\ ~es_log[3].final
        GetDevicesOk ==
            /\ GetDevicesReturned
            /\ es_log[2].op = "GET reply" /\ es_log[2].res = "ok"
            /\ GetDevicesChained => es_log[4].res = "ok"
    IN /\ GetDevicesOk =>
             /\ Len(es_listed) >= 1
             /\ GetDevicesChained =>
                   (Len(es_listed) = 1 /\ es_listed[1].id = -1
                      /\ Cardinality(Entries("POST devices", FALSE)) = 1)
       /\ (GetDevicesReturned /\ es_log[2].status = 404) => GetDevicesChained

(***************************************************************************)
(* C32.  An error of the device-list call that is not the not-found case   *)
(* is what get_devices() returns, with the same kind and payload.          *)
(***************************************************************************)
C32_ListErrorsUnchanged ==
    ( /\ es_pc = "done"
      /\ Len(es_log) = 2
      /\ es_log[2].op = "GET reply" /\ es_log[2].res = "err" )
    => /\ es_ret.kind = "Reqwest"
       /\ es_ret.data \in {"send", "decode"}

(***************************************************************************)
(* Gateway discovery.  Replies of GET organizations and of GET             *)
(* limited/catalog, as rest_api returns them: an error, or the items of    *)
(* the list, or the wdm link of the catalog.                               *)
(***************************************************************************)
DefaultRegistrationHost == "https://wdm-a.wbx2.com/wdm/api/v1"

DiscOk(host) == [ok |-> TRUE, host |-> host, err |-> ""]

DiscErr(err) == [ok |-> FALSE, host |-> "", err |-> err]

(***************************************************************************)
(* get_mercury_url: what the lookup in the cache returns.  An entry Err(()) *)
(* is returned as Err(None).                                               *)
(***************************************************************************)
cache_lookup(entry) ==
    IF entry = "none"
    THEN [found |-> FALSE, ret |-> NoDiscovery]
    ELSE IF entry = "err"
         THEN [found |-> TRUE, ret |-> DiscErr("None")]
         ELSE [found |-> TRUE, ret |-> DiscOk(entry)]

(***************************************************************************)
(* The mutex guard of the lookup is a temporary of the `if let`            *)
(* scrutinee; it is dropped before get_mercury_url_uncached is awaited.    *)
(***************************************************************************)
holder_after_lookup_held_on_miss(p, found) == IF found THEN 0 ELSE p

holder_after_lookup(p, found) == 0

(***************************************************************************)
(* get_mercury_url_uncached, on the reply of the organizations list and on *)
(* the reply of the catalog.                                               *)
(***************************************************************************)
uncached_on_orgs_takes_last(reply) ==
    IF ~reply.ok
    THEN [go |-> "return", disc |-> DiscErr(reply.err), org |-> ""]
    ELSE IF reply.items = <<>>
         THEN [go |-> "return", disc |-> DiscErr("Can't get mercury URL with no orgs"),
               org |-> ""]
         ELSE [go |-> "catalog", disc |-> NoDiscovery, org |-> reply.items[Len(reply.items)]]

uncached_on_orgs(reply) ==
    IF ~reply.ok
    THEN [go |-> "return", disc |-> DiscErr(reply.err), org |-> ""]
    ELSE IF reply.items = <<>>
         THEN [go |-> "return", disc |-> DiscErr("Can't get mercury URL with no orgs"),
               org |-> ""]
         ELSE [go |-> "catalog", disc |-> NoDiscovery, org |-> reply.items[1]]

uncached_on_catalog(reply) ==
    IF reply.ok THEN DiscOk(reply.host) ELSE DiscErr(reply.err)

(***************************************************************************)
(* get_mercury_url: the entry inserted for the result of the discovery.    *)
(***************************************************************************)
cache_entry(disc) == IF disc.ok THEN disc.host ELSE "err"

cache_insert_keeps_first(cache, id, disc) ==
    IF cache[id] = "none" THEN [cache EXCEPT ![id] = cache_entry(disc)] ELSE cache

cache_insert(cache, id, disc) == [cache EXCEPT ![id] = cache_entry(disc)]

(***************************************************************************)
(* new_with_device_name: the host of `devices`.                            *)
(***************************************************************************)
devices_url_without_fallback(ret) == ret.host

devices_url(ret) == IF ret.ok THEN ret.host ELSE DefaultRegistrationHost

(***************************************************************************)
(* The construction of a client, step by step.                             *)
(***************************************************************************)
Client(p) == merc.c[p]

mc_New(p) ==
    /\ Client(p).pc = "idle"
    /\ \E id \in TokenIds :
          merc' = [merc EXCEPT !.c[p] = [ClientIdle EXCEPT !.pc = "lookup_wait", !.id = id,
                                                           !.table = {"limited/catalog"}]]
    /\ UNCHANGED <<session_vars, es_vars, rest, gid, oauth>>

mc_LockLookup(p) ==
    /\ Client(p).pc = "lookup_wait"
    /\ merc.lock = 0
    /\ merc' = [merc EXCEPT !.lock = p, !.c[p].pc = "lookup"]
    /\ UNCHANGED <<session_vars, es_vars, rest, gid, oauth>>

mc_Lookup(p) ==
    /\ Client(p).pc = "lookup"
    /\ LET l == cache_lookup(merc.cache[Client(p).id])
       IN merc' = [merc EXCEPT
                      !.lock = holder_after_lookup(p, l.found),
                      !.c[p] = IF l.found
                               THEN [@ EXCEPT !.pc = "resolved", !.hit = TRUE, !.ret = l.ret]
                               ELSE [@ EXCEPT !.pc = "orgs", !.orgs_reqs = @ + 1]]
    /\ UNCHANGED <<session_vars, es_vars, rest, gid, oauth>>

mc_OrgsReply(p) ==
    /\ Client(p).pc = "orgs"
    /\ \E reply \in
          {[ok |-> FALSE, items |-> <<>>, host |-> "",
            err |-> "organizations request failed"]}
          \cup {[ok |-> TRUE, items |-> l, host |-> "", err |-> ""] :
                   l \in {<<>>, <<"org-1">>, <<"org-2", "org-1">>}} :
          LET u == uncached_on_orgs(reply)
          IN merc' = [merc EXCEPT
                         !.c[p] = IF u.go = "catalog"
                                  THEN [@ EXCEPT !.pc = "catalog", !.orgs = reply,
                                                 !.catalog_reqs = Append(@, u.org)]
                                  ELSE [@ EXCEPT !.pc = "insert_wait", !.orgs = reply,
                                                 !.disc = u.disc]]
    /\ UNCHANGED <<session_vars, es_vars, rest, gid, oauth>>

mc_CatalogReply(p) ==
    /\ Client(p).pc = "catalog"
    /\ \E reply \in
          {[ok |-> FALSE, items |-> <<>>, host |-> "", err |-> "catalog request failed"]}
          \cup {[ok |-> TRUE, items |-> <<>>, host |-> h, err |-> ""] : h \in WdmHosts} :
          merc' = [merc EXCEPT !.c[p] = [@ EXCEPT !.pc = "insert_wait", !.cat = reply,
                                                  !.disc = uncached_on_catalog(reply)]]
    /\ UNCHANGED <<session_vars, es_vars, rest, gid, oauth>>

mc_LockInsert(p) ==
    /\ Client(p).pc = "insert_wait"
    /\ merc.lock = 0
    /\ merc' = [merc EXCEPT !.lock = p, !.c[p].pc = "insert"]
    /\ UNCHANGED <<session_vars, es_vars, rest, gid, oauth>>

mc_Insert(p) ==
    /\ Client(p).pc = "insert"
    /\ merc' = [merc EXCEPT
                   !.cache = cache_insert(@, Client(p).id, Client(p).disc),
                   !.writes = Append(@, [by |-> p, id |-> Client(p).id,
                                         entry |-> cache_entry(Client(p).disc)]),
                   !.lock = 0,
                   !.c[p] = [@ EXCEPT !.pc = "resolved", !.ret = Client(p).disc,
                                      !.orgs = NoReply, !.cat = NoReply]]
    /\ UNCHANGED <<session_vars, es_vars, rest, gid, oauth>>

mc_Build(p) ==
    /\ Client(p).pc = "resolved"
    /\ merc' = [merc EXCEPT !.c[p] = [@ EXCEPT !.pc = "built",
                                               !.devices = devices_url(Client(p).ret),
                                               !.table = @ \cup {"devices"}]]
    /\ UNCHANGED <<session_vars, es_vars, rest, gid, oauth>>

MercNext ==
    \E p \in Clients :
       \/ mc_New(p)
       \/ mc_LockLookup(p)
       \/ mc_Lookup(p)
       \/ mc_OrgsReply(p)
       \/ mc_CatalogReply(p)
       \/ mc_LockInsert(p)
       \/ mc_Insert(p)
       \/ mc_Build(p)

MercSpec == EsInit /\ [][MercNext]_vars

(***************************************************************************)
(* C33.  A failed discovery leaves no entry in the cache: the cache holds  *)
(* successful results only, and no resolve returns a failure taken from    *)
(* the cache.                                                              *)
(***************************************************************************)
C33_FailuresAreNotCached ==
    /\ \A t \in TokenIds : merc.cache[t] # "err"
    /\ \A p \in Clients :
          (Client(p).pc \in {"resolved", "built"} /\ ~Client(p).ret.ok) => ~Client(p).hit

(***************************************************************************)
(* C34.  Every constructed client has the entries limited/catalog and      *)
(* devices in its host table; devices is the wdm host that                 *)
(* get_mercury_url returned, or the default registration host when it      *)
(* returned an error.                                                      *)
(***************************************************************************)
C34_ConstructionFallsBack ==
    \A p \in Clients :
       /\ Client(p).pc # "idle" => "limited/catalog" \in Client(p).table
       /\ Client(p).pc = "built" =>
             /\ Client(p).table = {"limited/catalog", "devices"}
             /\ Client(p).ret.ok =>
                   (Client(p).devices = Client(p).ret.host /\ Client(p).devices \in WdmHosts)
             /\ ~Client(p).ret.ok => Client(p).devices = DefaultRegistrationHost
       /\ Client(p).pc # "built" => "devices" \notin Client(p).table
       /\ Client(p).pc = "resolved" => ENABLED mc_Build(p)

C34_Witness ==
    \E p, q \in Clients :
       /\ Client(p).pc = "built" /\ ~Client(p).hit /\ ~Client(p).ret.ok
       /\ Client(p).devices = DefaultRegistrationHost
       /\ Client(q).pc = "built" /\ Client(q).devices = "wdm-2"

(***************************************************************************)
(* C35.  A successful entry of the cache is never replaced by a failure.   *)
(***************************************************************************)
C35_SuccessIsNeverReplaced ==
    [][\A t \in TokenIds :
          merc.cache[t] \in WdmHosts => merc'.cache[t] \in WdmHosts]_vars

(***************************************************************************)
(* C36.  When several clients populate the cache for one token, each makes *)
(* its own discovery and returns its own result, each writes the entry of  *)
(* its own result, and the cache holds the entry written last.             *)
(***************************************************************************)
C36_LastWriteWins ==
    LET Resolved(p) == Client(p).pc \in {"resolved", "built"}
        WritesFor(t) == {i \in 1..Len(merc.writes) : merc.writes[i].id = t}
        WritesBy(p) == {i \in 1..Len(merc.writes) : merc.writes[i].by = p}
        MaxOf(S) == CHOOSE m \in S : \A n \in S : n <= m
    IN /\ \A t \in TokenIds :
             IF WritesFor(t) = {}
             THEN merc.cache[t] = "none"
             ELSE merc.cache[t] = merc.writes[MaxOf(WritesFor(t))].entry
       /\ \A p \in Clients :
             /\ (Resolved(p) /\ ~Client(p).hit) =>
                   /\ Client(p).ret = Client(p).disc
                   /\ Client(p).orgs_reqs = 1
                   /\ Cardinality(WritesBy(p)) = 1
                   /\ \A i \in WritesBy(p) :
                         /\ merc.writes[i].id = Client(p).id
                         /\ merc.writes[i].entry = cache_entry(Client(p).disc)
             /\ Client(p).hit => (WritesBy(p) = {} /\ Client(p).orgs_reqs = 0)
             /\ ~Resolved(p) => WritesBy(p) = {}

C36_Witness ==
    /\ Len(merc.writes) = 2
    /\ merc.writes[1].id = merc.writes[2].id
    /\ merc.writes[1].by # merc.writes[2].by
    /\ merc.writes[1].entry = "wdm-1"
    /\ merc.writes[2].entry = "wdm-2"
    /\ merc.cache[merc.writes[2].id] = "wdm-2"
    /\ \A p \in {merc.writes[1].by, merc.writes[2].by} : Client(p).ret.ok

(***************************************************************************)
(* C37.  The mutex is held only by a client that is at the lookup or at    *)
(* the insert, never by one whose organizations or catalog request is in   *)
(* flight, so a client waiting for the mutex waits for no network reply.   *)
(***************************************************************************)
C37_NoLockAcrossIO ==
    /\ \A p \in Clients :
          /\ Client(p).pc \in {"orgs", "catalog"} => merc.lock # p
          /\ Client(p).pc \in {"lookup", "insert"} <=> merc.lock = p
    /\ merc.lock # 0 => \/ ENABLED mc_Lookup(merc.lock)
                        \/ ENABLED mc_Insert(merc.lock)

C37_Witness ==
    \E p, q \in Clients :
       /\ Client(p).pc = "catalog"
       /\ Client(q).pc = "insert"
       /\ merc.lock = q
       /\ Client(p).id = Client(q).id

(***************************************************************************)
(* C38.  The uncached discovery makes one organizations request; on an     *)
(* empty list it returns an error and makes no catalog request; otherwise  *)
(* it makes one catalog request for the first organization and returns the *)
(* wdm host of the reply; an error of either request is its error.         *)
(***************************************************************************)
C38_UncachedDiscovery ==
    \A p \in Clients :
       LET c == Client(p)
       IN /\ c.pc = "catalog" =>
                (c.orgs.ok /\ c.orgs.items # <<>> /\ c.catalog_reqs = <<c.orgs.items[1]>>)
          /\ c.pc \in {"insert_wait", "insert"} =>
                /\ c.orgs_reqs = 1
                /\ ~c.orgs.ok => (c.disc = DiscErr(c.orgs.err) /\ c.catalog_reqs = <<>>)
                /\ (c.orgs.ok /\ c.orgs.items = <<>>) =>
                      (~c.disc.ok /\ c.disc.err = "Can't get mercury URL with no orgs"
                         /\ c.catalog_reqs = <<>>)
                /\ (c.orgs.ok /\ c.orgs.items # <<>>) =>
                      /\ c.catalog_reqs = <<c.orgs.items[1]>>
                      /\ c.cat.ok => c.disc = DiscOk(c.cat.host)
                      /\ ~c.cat.ok => c.disc = DiscErr(c.cat.err)

C38_Witness ==
    \E p \in Clients :
       /\ Client(p).pc = "insert_wait"
       /\ Client(p).orgs.items = <<"org-2", "org-1">>
       /\ Client(p).catalog_reqs = <<"org-2">>
       /\ Client(p).disc = DiscOk("wdm-1")

(***************************************************************************)
(* C39.  new_with_cluster returns a GlobalId only if the kind is not       *)
(* Unknown and the id is a UUID, or base64 of a text of exactly five       *)
(* segments of which the first is ciscospark:, the second is empty and the *)
(* third is the expected cluster when one is supplied; otherwise it        *)
(* returns an error and no GlobalId.                                       *)
(***************************************************************************)
C39_CheckedAcceptsOnlyWellFormed ==
    LET WellFormedUri(id, cluster) ==
            /\ id.t = "b64"
            /\ id.utf8
            /\ Len(id.parts) = 5
            /\ id.parts[1] = "ciscospark:"
            /\ id.parts[2] = ""
            /\ cluster # "None" => id.parts[3] = cluster
    IN (gid.op = "new" /\ gid.checked) =>
          /\ gid.res.ok =>
                /\ gid.type_ # "Unknown"
                /\ \/ (gid.id.t = "raw" /\ gid.id.parts[1] \in AllUuidStrings)
                   \/ WellFormedUri(gid.id, gid.cluster)
          /\ ~gid.res.ok => (gid.res.g = NoGlobalId /\ gid.res.err # "")

C39_Witness ==
    /\ gid.op = "new"
    /\ gid.checked
    /\ gid.id \in UriIds
    /\ gid.cluster # "None"
    /\ gid.id.parts[3] = gid.cluster
    /\ gid.res.ok
    /\ gid.res.g.id = gid.id

(***************************************************************************)
(* DeviceAuthenticator::wait_for_authentication.                           *)
(*                                                                         *)
(* The verification tokens given to it, and the replies of the token       *)
(* endpoint: status 0 stands for a request that got no response.           *)
(***************************************************************************)
VerificationTokens ==
    [device_code : {"device-1", "device-2"}, interval : {0, 1, 5}]

TokenReplies ==
    {[status |-> 200, body |-> b] : b \in {"access-1", "access-2", "not json"}}
       \cup {[status |-> s, body |-> "error text"] : s \in {400, 428, 429}}
       \cup {[status |-> 0, body |-> ""]}

(***************************************************************************)
(* The result of api_post for a reply: a decoded TokenResponse, or the     *)
(* kind of the error.                                                      *)
(***************************************************************************)
api_post_result(reply) ==
    IF reply.status = 0
    THEN [kind |-> "Transport", status |-> 0, access_token |-> ""]
    ELSE IF reply.status \in {423, 429}
         THEN [kind |-> "Limited", status |-> reply.status, access_token |-> ""]
         ELSE IF reply.status \notin 200..299
              THEN [kind |-> "StatusText", status |-> reply.status, access_token |-> ""]
              ELSE IF reply.body = "not json"
                   THEN [kind |-> "Decode", status |-> reply.status, access_token |-> ""]
                   ELSE [kind |-> "Ok", status |-> reply.status,
                         access_token |-> reply.body]

(***************************************************************************)
(* The match on the result of the poll: return the bearer, poll again      *)
(* after 428 Precondition Required, return the Authentication error.       *)
(***************************************************************************)
wait_on_result(r) ==
    IF r.kind = "Ok"
    THEN [go |-> "return", ret |-> [ok |-> TRUE, bearer |-> r.access_token, err |-> ""]]
    ELSE IF r.kind = "StatusText" /\ r.status = 428
         THEN [go |-> "loop", ret |-> NoBearer]
         ELSE [go |-> "return",
               ret |-> [ok |-> FALSE, bearer |-> "", err |-> "Authentication"]]

(***************************************************************************)
(* The interval: the first tick after interval seconds, the following ones *)
(* interval + 1 seconds apart.                                             *)
(***************************************************************************)
tick_delay(verification_token, polls) ==
    IF polls = 0
    THEN verification_token.interval
    ELSE verification_token.interval + 1

oa_Call ==
    /\ oauth.pc = "idle"
    /\ \E v \in VerificationTokens :
          oauth' = [oauth EXCEPT !.pc = "tick", !.verification_token = v,
                                 !.sleep = tick_delay(v, 0)]
    /\ UNCHANGED <<session_vars, es_vars, rest, gid, merc>>

oa_Tick ==
    /\ oauth.pc = "tick"
    /\ oauth' = [oauth EXCEPT !.pc = "post",
                              !.polls = IF @ < MaxPolls THEN @ + 1 ELSE MaxPolls,
                              !.sent = oauth.verification_token.device_code]
    /\ UNCHANGED <<session_vars, es_vars, rest, gid, merc>>

oa_Reply ==
    /\ oauth.pc = "post"
    /\ \E reply \in TokenReplies :
          LET w == wait_on_result(api_post_result(reply))
          IN oauth' = IF w.go = "loop"
                      THEN [oauth EXCEPT !.pc = "tick", !.last = reply,
                               !.sleep = tick_delay(oauth.verification_token, oauth.polls)]
                      ELSE [oauth EXCEPT !.pc = "done", !.last = reply, !.ret = w.ret]
    /\ UNCHANGED <<session_vars, es_vars, rest, gid, merc>>

OauthNext == oa_Call \/ oa_Tick \/ oa_Reply

OauthSpec == EsInit /\ [][OauthNext]_vars

OauthFairSpec == OauthSpec /\ WF_vars(oa_Tick) /\ WF_vars(oa_Reply)

(***************************************************************************)
(* C40.  wait_for_authentication terminates: whatever the token endpoint   *)
(* replies, a call that has started polling returns.                       *)
(***************************************************************************)
C40_PollingTerminates == (oauth.pc = "tick") ~> (oauth.pc = "done")

====
